---- MODULE Spec2Model ----
(***************************************************************************)
(* A model of the recline interactive shell runtime:                       *)
(*   - the compound-line interpreter  (recline/repl/shell.py)              *)
(*   - the command-name resolver      (recline/repl/completer.py)          *)
(*   - the asynchronous job supervisor                                     *)
(*                                    (recline/commands/async_command.py)  *)
(* Python strings are sequences of one-character strings.                  *)
(***************************************************************************)
EXTENDS Integers, Sequences, FiniteSets, TLC

\* ------------------------------------------------------------------ bounds
MaxLen == 4            \* longest input line explored by the interpreter
MaxJobs == 2           \* number of AsyncCommand objects ever created
MaxSuspends == 1       \* suspension points a job body passes before it must end
MaxNames == 4          \* names in the registry handed to the resolver
MaxRegs == 2           \* uses of @recline.command by the application

\* --------------------------------------------------------------- constants
EXIT_COMMAND_CODE == 222

Alphabet == {"a", "b", ";", "&", "|", " "}

NoName == <<"None">>   \* Python None as returned by get_command_name

\* ------------------------------------------------------- python str helpers
StartsWith(s, p) == Len(p) <= Len(s) /\ SubSeq(s, 1, Len(p)) = p

Find(s, sep) ==
    LET idx == {i \in 1..(Len(s) - Len(sep) + 1) : SubSeq(s, i, i + Len(sep) - 1) = sep}
    IN  IF idx = {} THEN 0 ELSE CHOOSE i \in idx : \A j \in idx : i <= j

Contains(s, sep) == Find(s, sep) # 0

RECURSIVE Split(_, _)
Split(s, sep) ==
    LET i == Find(s, sep)
    IN  IF i = 0 THEN <<s>>
        ELSE <<SubSeq(s, 1, i - 1)>> \o Split(SubSeq(s, i + Len(sep), Len(s)), sep)

RECURSIVE LStrip(_)
LStrip(s) == IF s # <<>> /\ Head(s) = " " THEN LStrip(Tail(s)) ELSE s

RECURSIVE RStrip(_)
RStrip(s) == IF s # <<>> /\ s[Len(s)] = " " THEN RStrip(SubSeq(s, 1, Len(s) - 1)) ELSE s

Strip(s) == RStrip(LStrip(s))

RECURSIVE Join(_, _)
Join(pieces, i) ==
    IF i = 0 THEN <<>>
    ELSE IF i = 1 THEN pieces[1]
    ELSE Join(pieces, i - 1) \o <<" ">> \o pieces[i]

InList(x, list) == \E k \in 1..Len(list) : list[k] = x

\* ------------------------------------------------------------ name resolver
\* StillPossible that also wants the candidate to have no more words than
\* the text
StillPossibleSameLength(possible, pieces) ==
    LET words == Split(possible, <<" ">>)
    IN  /\ Len(words) <= Len(pieces)
        /\ \A index \in 1..Len(words) : words[index] = pieces[index]

\* StillPossible that compares the first word only
StillPossibleFirstWord(possible, pieces) ==
    LET words == Split(possible, <<" ">>)
    IN  words[1] = pieces[1]

\* get_command_name(), lines 111-119: every word of the candidate equals the
\* word of the text at the same position, as far as the text goes
StillPossible(possible, pieces) ==
    LET words == Split(possible, <<" ">>)
    IN  \A index \in 1..Len(words) :
            index > Len(pieces) \/ words[index] = pieces[index]

\* ResolveLoop that tries the whole text only and never drops a word
ResolveLoopNoRetry(pieces, options, i) ==
    LET prefix == Join(pieces, i)
        possibles == SelectSeq(options, LAMBDA x : StartsWith(x, prefix))
        still_possible == SelectSeq(possibles, LAMBDA x : StillPossible(x, pieces))
    IN  IF i > 0 /\ Len(possibles) = 1
          THEN [command_name |-> prefix, possible_match |-> possibles[1]]
        ELSE IF i > 0 /\ Len(possibles) > 1 /\ Len(still_possible) = 1
          THEN [command_name |-> still_possible[1], possible_match |-> still_possible[1]]
        ELSE [command_name |-> NoName, possible_match |-> NoName]

\* ResolveLoop that settles for the first listed name that starts with the
\* prefix
RECURSIVE ResolveLoopFirst(_, _, _)
ResolveLoopFirst(pieces, options, i) ==
    IF i = 0 THEN [command_name |-> NoName, possible_match |-> NoName]
    ELSE
      LET prefix == Join(pieces, i)
          possibles == SelectSeq(options, LAMBDA x : StartsWith(x, prefix))
      IN  IF Len(possibles) >= 1
            THEN [command_name |-> possibles[1], possible_match |-> possibles[1]]
          ELSE ResolveLoopFirst(pieces, options, i - 1)

\* get_command_name(), lines 93-125: the while loop
RECURSIVE ResolveLoop(_, _, _)
ResolveLoop(pieces, options, i) ==
    IF i = 0 THEN [command_name |-> NoName, possible_match |-> NoName]
    ELSE
      LET prefix == Join(pieces, i)
          possibles == SelectSeq(options, LAMBDA x : StartsWith(x, prefix))
          still_possible == SelectSeq(possibles, LAMBDA x : StillPossible(x, pieces))
      IN  IF Len(possibles) = 1
            THEN [command_name |-> prefix, possible_match |-> possibles[1]]
          ELSE IF Len(possibles) > 1 /\ Len(still_possible) = 1
            THEN [command_name |-> still_possible[1], possible_match |-> still_possible[1]]
          ELSE ResolveLoop(pieces, options, i - 1)

\* get_command_name without the shortcut for an exact match
get_command_nameNoShortcut(text, options, exact) ==
    LET pieces == Split(text, <<" ">>)
        r == ResolveLoop(pieces, options, Len(pieces))
    IN  IF r.command_name # NoName /\ r.command_name = Strip(r.possible_match)
          THEN r.command_name
          ELSE NoName

get_command_name(text, options, exact) ==
    IF exact /\ InList(text, options) THEN text
    ELSE
      LET pieces == Split(text, <<" ">>)
          r == ResolveLoop(pieces, options, Len(pieces))
      IN  IF r.command_name # NoName /\ r.command_name = Strip(r.possible_match)
            THEN r.command_name
            ELSE NoName

\* ========================================================================
\* Shell interpreter: recline/repl/shell.py
\* ========================================================================
VARIABLES line,        \* the text handed to the outermost execute()
          shpc,        \* position of the interpreter's main line
          arg,         \* current_input of the execute() call being entered
          stack,       \* one frame per active compound execute() call
          retval,      \* value returned by the execute() call that just ended
          trace,       \* simple commands run so far (observable side effects)
          lastFrame    \* frame of the compound execute() call that returned last

shellVars == <<line, shpc, arg, stack, retval, trace, lastFrame>>

\* state of the job supervisor (recline/commands/async_command.py)
VARIABLES NEXT_JOB_PID,  \* recline.NEXT_JOB_PID
          JOBS,          \* recline.JOBS: job_pid -> AsyncCommand object
          threads,       \* every AsyncCommand object created, in creation order
          sigint,        \* handler currently installed for SIGINT
          sigtstp,       \* handler currently installed for SIGTSTP
          mainpc,        \* position of the main line
          fg             \* the foreground() call in progress, or how it ended

jobVars == <<NEXT_JOB_PID, JOBS, threads, sigint, sigtstp, mainpc, fg>>

\* one call of CommandCompleter.get_command_name (recline/repl/completer.py)
VARIABLES rtext,      \* argument text
          roptions,   \* argument options: the registered names, as listed
          rexact,     \* argument exact
          rresult,    \* the value returned
          rpc         \* "call" before the call, "done" after it

resVars == <<rtext, roptions, rexact, rresult, rpc>>

\* the application as a whole: registration of commands while the program's
\* modules are imported (recline/commands/cli_command.py), then relax()
\* (recline/repl/shell.py) with the completer (recline/repl/completer.py)
VARIABLES COMMAND_REGISTRY,  \* commands.COMMAND_REGISTRY: name -> CLICommand
          START_COMMAND,     \* commands.START_COMMAND
          EXIT_COMMAND,      \* commands.EXIT_COMMAND
          apc,               \* "import", then "loop" or "fatal" once relax() runs
          nreg,              \* calls of _register made by the application
          lastReg,           \* arguments and outcome of the last such call
          started,           \* what became of the start command in _setup_repl
          shown,             \* the completer's matches, if TAB was the last event
          typed              \* the line read and the command run, if that was

appVars == <<COMMAND_REGISTRY, START_COMMAND, EXIT_COMMAND, apc, nreg, lastReg,
             started, shown, typed>>

vars == <<shellVars, jobVars, resVars, appVars>>

\* ------------------------------------------------- creation of a job object
NoHandler == [h |-> "None", t |-> 0]      \* Python None

DictSet(d, key, val) == [p \in DOMAIN d \cup {key} |-> IF p = key THEN val ELSE d[p]]
DictDel(d, key) == [p \in DOMAIN d \ {key} |-> d[p]]

\* AsyncCommand.__init__
NewThread(pid) ==
    [job_pid |-> pid, result |-> "None", exception |-> "None", task |-> "None",
     wait |-> TRUE, killed |-> FALSE,
     orig_int |-> NoHandler, orig_tstp |-> NoHandler,
     tpc |-> "start", body |-> "none", cancelReq |-> FALSE, suspends |-> 0,
     observed |-> FALSE, bodyRet |-> "-", bodyExc |-> "-"]

\* NextPid with the increment forgotten
NextPidStuck(pid) == pid

NextPid(pid) == pid + 1

Strings(n) == UNION {[1..k -> Alphabet] : k \in 0..n}

\* commands.COMMAND_REGISTRY of the modelled application: names in
\* registration order
RegistryNames == << <<"a">>, <<"b">> >>

\* command.output_formatter is configured for "b" only
output_formatter(name) == name = <<"b">>

SEMI == <<";">>
AND  == <<"&", "&">>
OR   == <<"|", "|">>

\* which branch of execute() is taken for a given input (<<>>: simple command)
CompoundOp(s) ==
    IF Contains(s, SEMI) THEN SEMI
    ELSE IF Contains(s, AND) THEN AND
    ELSE IF Contains(s, OR) THEN OR
    ELSE <<>>

\* Break with the '||' loop stopping on any non-positive exit code
BreakOrNonPositive(op, result) ==
    IF op = AND THEN result > 0
    ELSE IF op = OR THEN result <= 0
    ELSE FALSE

\* Break with the ';' loop stopping at the first failing segment
BreakSemiOnFailure(op, result) ==
    IF op = OR THEN result = 0
    ELSE result > 0

\* the 'break' tests in the loops of execute()
Break(op, result) ==
    IF op = AND THEN result > 0
    ELSE IF op = OR THEN result = 0
    ELSE FALSE

NoFrame == [op |-> <<>>, segs |-> <<>>, ran |-> <<>>, codes |-> <<>>]

Result(f) == IF f.codes = <<>> THEN 0 ELSE f.codes[Len(f.codes)]

Top == stack[Len(stack)]
Pop == SubSeq(stack, 1, Len(stack) - 1)

\* values a command body may hand back to run_one_command()
ReturnCodes == {-1, 0, 1, 2}

\* _run_command(), lines 222-227, for an asynchronous command invoked with
\* (background) or without the -background flag, every job ignoring the flag
AsyncOutcomeIgnoreFlag(background) ==
    [kind |-> "Exception", val |-> 0, spawn |-> TRUE, background |-> background]

\* _run_command(), lines 222-227, for an asynchronous command: the job is
\* created and started, then 'namespace.background or command.is_background'
\* is evaluated. With the flag set CommandBackgrounded is raised; without it
\* the attribute is_background, which CLICommand does not define, is read:
\* AttributeError, and foreground() is not reached
AsyncOutcome(background) ==
    [kind |-> IF background THEN "CommandBackgrounded" ELSE "Exception",
     val |-> 0, spawn |-> TRUE, background |-> background]

\* how _run_command() can end for a registered command; spawn: an
\* AsyncCommand was created and started on the way (lines 223-224);
\* background: the -background flag was given
RunCommandOutcomes ==
    {[kind |-> "none", val |-> 0, spawn |-> FALSE, background |-> FALSE]}
      \cup {[kind |-> "return", val |-> v, spawn |-> FALSE, background |-> FALSE] :
              v \in ReturnCodes}
      \cup {[kind |-> "SystemExit", val |-> c, spawn |-> FALSE, background |-> FALSE] :
              c \in {0, 2, EXIT_COMMAND_CODE}}
      \cup {[kind |-> k, val |-> 0, spawn |-> FALSE, background |-> FALSE] :
              k \in {"ReclineTypeError", "ReclineCommandError", "Exception",
                     "CommandBackgrounded", "CommandCancelled"}}
      \cup {AsyncOutcome(background) : background \in BOOLEAN}

\* CommandExit that returns the command's value even when an output
\* formatter is configured
CommandExitIgnoreFormatter(name, o) ==
    CASE o.kind \in {"none", "return"} -> [raised |-> FALSE, code |-> o.val]
      [] o.kind = "CommandBackgrounded" -> [raised |-> FALSE, code |-> 0]
      [] o.kind = "SystemExit" ->
           IF o.val = EXIT_COMMAND_CODE
             THEN [raised |-> TRUE, code |-> o.val]
             ELSE [raised |-> FALSE, code |-> o.val]
      [] OTHER -> [raised |-> FALSE, code |-> 1]

\* CommandExit that turns every SystemExit into an exit code, the exit
\* command's too
CommandExitSwallowExit(name, o) ==
    CASE o.kind \in {"none", "return"} ->
           [raised |-> FALSE, code |-> IF output_formatter(name) THEN 0 ELSE o.val]
      [] o.kind = "CommandBackgrounded" -> [raised |-> FALSE, code |-> 0]
      [] o.kind = "SystemExit" -> [raised |-> FALSE, code |-> o.val]
      [] OTHER -> [raised |-> FALSE, code |-> 1]

\* run_one_command(): what the shell makes of an outcome of _run_command()
CommandExit(name, o) ==
    CASE o.kind \in {"none", "return"} ->
           [raised |-> FALSE, code |-> IF output_formatter(name) THEN 0 ELSE o.val]
      [] o.kind = "CommandBackgrounded" -> [raised |-> FALSE, code |-> 0]
      [] o.kind = "SystemExit" ->
           IF o.val = EXIT_COMMAND_CODE
             THEN [raised |-> TRUE, code |-> o.val]
             ELSE [raised |-> FALSE, code |-> o.val]
      [] OTHER -> [raised |-> FALSE, code |-> 1]

\* lines that mix two operators
a_and_b_or_a == <<"a", "&", "&", "b", "|", "|", "a">>
a_semi_b_or_a == <<"a", ";", "b", "|", "|", "a">>
a_or_b_and_a == <<"a", "|", "|", "b", "&", "&", "a">>
MixedLines == {a_and_b_or_a, a_semi_b_or_a, a_or_b_and_a}

\* UnknownExit with the exit code of a successful command
UnknownExitZero == [raised |-> FALSE, code |-> 0]

\* run_one_command(), lines 147-149: no registered command matched
UnknownExit == [raised |-> FALSE, code |-> 1]

ShellInit ==
    /\ line \in Strings(MaxLen) \cup MixedLines
    /\ arg = line
    /\ shpc = "call"
    /\ stack = <<>>
    /\ retval = 0
    /\ trace = <<>>
    /\ lastFrame = NoFrame

\* execute(): one of the three compound branches is entered
ExecuteCompound ==
    /\ shpc = "call"
    /\ CompoundOp(arg) # <<>>
    /\ stack' = Append(stack, [op |-> CompoundOp(arg),
                               segs |-> Split(arg, CompoundOp(arg)),
                               ran |-> <<>>, codes |-> <<>>])
    /\ shpc' = "for"
    /\ UNCHANGED <<line, arg, retval, trace, lastFrame>>
    /\ UNCHANGED jobVars
    /\ UNCHANGED resVars
    /\ UNCHANGED appVars

\* for command in current_input.split(op): result = execute(command)
ForNext ==
    /\ shpc = "for"
    /\ Len(Top.ran) < Len(Top.segs)
    /\ arg' = Top.segs[Len(Top.ran) + 1]
    /\ stack' = [stack EXCEPT ![Len(stack)].ran = Append(@, Top.segs[Len(Top.ran) + 1])]
    /\ shpc' = "call"
    /\ UNCHANGED <<line, retval, trace, lastFrame>>
    /\ UNCHANGED jobVars
    /\ UNCHANGED resVars
    /\ UNCHANGED appVars

\* the loop ran out of segments: return result
ForDone ==
    /\ shpc = "for"
    /\ Len(Top.ran) = Len(Top.segs)
    /\ retval' = Result(Top)
    /\ lastFrame' = Top
    /\ stack' = Pop
    /\ shpc' = "ret"
    /\ UNCHANGED <<line, arg, trace>>
    /\ UNCHANGED jobVars
    /\ UNCHANGED resVars
    /\ UNCHANGED appVars

\* a segment's execute() returned into the loop: record it, test for break
SegmentReturn ==
    /\ shpc = "ret"
    /\ stack # <<>>
    /\ LET f == [Top EXCEPT !.codes = Append(@, retval)]
       IN  IF Break(f.op, retval)
             THEN /\ stack' = Pop
                  /\ lastFrame' = f
                  /\ shpc' = "ret"
             ELSE /\ stack' = [stack EXCEPT ![Len(stack)] = f]
                  /\ lastFrame' = lastFrame
                  /\ shpc' = "for"
    /\ UNCHANGED <<line, arg, retval, trace>>
    /\ UNCHANGED jobVars
    /\ UNCHANGED resVars
    /\ UNCHANGED appVars

\* the outermost execute() returned
ExecuteDone ==
    /\ shpc = "ret"
    /\ stack = <<>>
    /\ shpc' = "done"
    /\ UNCHANGED <<line, arg, stack, retval, trace, lastFrame>>
    /\ UNCHANGED jobVars
    /\ UNCHANGED resVars
    /\ UNCHANGED appVars

\* execute() on a simple command: run_one_command(current_input.strip())
RunOneCommand ==
    /\ shpc = "call"
    /\ CompoundOp(arg) = <<>>
    /\ LET current_input == Strip(arg)
           command_name == get_command_name(current_input, RegistryNames, TRUE)
       IN  IF ~InList(command_name, RegistryNames)
             THEN /\ trace' = Append(trace, [seg |-> current_input, name |-> NoName,
                                             kind |-> "Unknown command", val |-> 0,
                                             code |-> UnknownExit.code,
                                             job |-> 0, background |-> FALSE])
                  /\ retval' = UnknownExit.code
                  /\ shpc' = "ret"
                  /\ stack' = stack
                  /\ UNCHANGED <<NEXT_JOB_PID, JOBS, threads>>
             ELSE \E o \in RunCommandOutcomes :
                    LET x == CommandExit(command_name, o)
                    IN  /\ trace' = Append(trace, [seg |-> current_input,
                                                   name |-> command_name,
                                                   kind |-> o.kind, val |-> o.val,
                                                   code |-> x.code,
                                                   job |-> IF o.spawn
                                                             THEN NEXT_JOB_PID ELSE 0,
                                                   background |-> o.background])
                        /\ retval' = IF x.raised THEN retval ELSE x.code
                        /\ shpc' = IF x.raised THEN "raised" ELSE "ret"
                        /\ stack' = IF x.raised THEN <<>> ELSE stack
                        /\ IF o.spawn
                             THEN /\ Len(threads) < MaxJobs
                                  /\ threads' = Append(threads, NewThread(NEXT_JOB_PID))
                                  /\ JOBS' = DictSet(JOBS, NEXT_JOB_PID, Len(threads) + 1)
                                  /\ NEXT_JOB_PID' = NextPid(NEXT_JOB_PID)
                             ELSE UNCHANGED <<NEXT_JOB_PID, JOBS, threads>>
    /\ UNCHANGED <<line, arg, lastFrame>>
    /\ UNCHANGED <<sigint, sigtstp, mainpc, fg>>
    /\ UNCHANGED resVars
    /\ UNCHANGED appVars

\* ========================================================================
\* Job supervisor: recline/commands/async_command.py
\* ========================================================================
\* sys.platform == "win32": the modelled build is a POSIX one, with SIGTSTP
win32 == FALSE

\* signal handlers
Default == [h |-> "default", t |-> 0]     \* what the process starts with
StopHandler(k) == [h |-> "stop", t |-> k]            \* lambda: self.stop()
BackgroundHandler(k) == [h |-> "background", t |-> k]  \* lambda: self.background()

\* asyncio.CancelledError derives from Exception: Python < 3.8 only; the
\* modelled build is a later one
CancelledIsException == FALSE

\* what the body of the k-th job returns / raises when it ends by itself
BodyValues(k) == {IF k = 1 THEN "v1" ELSE IF k = 2 THEN "v2" ELSE "v3"}
BodyFaults(k) == {IF k = 1 THEN "e1" ELSE IF k = 2 THEN "e2" ELSE "e3"}

Threads == 1..Len(threads)

InTable(k) == threads[k].job_pid \in DOMAIN JOBS /\ JOBS[threads[k].job_pid] = k

is_alive(k) == threads[k].tpc # "dead"

\* fg.kind: "-" while the call runs, then the way it ended; prior_int and
\* prior_tstp: the handlers installed when foreground() was called; wasBg: the
\* job had been backgrounded before the call; bgd / stopd: the SIGTSTP /
\* SIGINT handler of the call ran background() / stop() on the job during
\* the call; registered: the ids in the job table when the process began to
\* exit
NoFg == [k |-> 0, kind |-> "-", val |-> "-",
         prior_int |-> Default, prior_tstp |-> Default,
         wasBg |-> FALSE, bgd |-> FALSE, stopd |-> FALSE, registered |-> {}]

JobInit ==
    /\ NEXT_JOB_PID = 1
    /\ JOBS = <<>>
    /\ threads = <<>>
    /\ sigint = Default
    /\ sigtstp = Default
    /\ mainpc = "idle"
    /\ fg = NoFg

\* AsyncCommand(command, ...) followed by start(), as _run_command does
Spawn ==
    /\ mainpc = "idle"
    /\ Len(threads) < MaxJobs
    /\ threads' = Append(threads, NewThread(NEXT_JOB_PID))
    /\ JOBS' = DictSet(JOBS, NEXT_JOB_PID, Len(threads) + 1)
    /\ NEXT_JOB_PID' = NextPid(NEXT_JOB_PID)
    /\ UNCHANGED <<sigint, sigtstp, mainpc, fg>>
    /\ UNCHANGED shellVars
    /\ UNCHANGED resVars
    /\ UNCHANGED appVars

\* "raised" and "fg_exit" are the instants at which a call on the main line
\* has just ended; nothing else is scheduled before MainResume. "exited": the
\* main line has left through sys.exit(); what follows is not modelled
MainRunning == mainpc \notin {"raised", "fg_exit", "exited"}

\* ------------------------------------------------------------ worker thread
\* run(), lines 71-75: the worker reads the installed handlers into
\* _orig_sigstp_handler and _orig_sigint_handler and creates the task
RunCreateTask(k) ==
    /\ MainRunning
    /\ threads[k].tpc = "start"
    /\ threads' = [threads EXCEPT ![k].tpc = "loop",
                                  ![k].orig_tstp = IF win32 THEN @ ELSE sigtstp,
                                  ![k].orig_int = sigint,
                                  ![k].task = "pending", ![k].body = "unstarted"]
    /\ UNCHANGED <<NEXT_JOB_PID, JOBS, sigint, sigtstp, mainpc, fg>>
    /\ UNCHANGED shellVars
    /\ UNCHANGED resVars
    /\ UNCHANGED appVars

\* run(), lines 76-79, when the task ends cancelled: CancelledError leaves
\* run_until_complete; 'except Exception' catches it on Python < 3.8 only
EndCancelled(t) ==
    [t EXCEPT !.tpc = "dead", !.task = "finished", !.cancelReq = FALSE,
              !.exception = IF CancelledIsException THEN "CancelledError" ELSE @]

\* EndReturned with the assignment to self.result left out
EndReturnedNoResult(t, v) ==
    [t EXCEPT !.tpc = "dead", !.task = "finished", !.body = "returned",
              !.bodyRet = v]

\* run(), line 77: the task returned a value
EndReturned(t, v) ==
    [t EXCEPT !.tpc = "dead", !.task = "finished", !.body = "returned",
              !.bodyRet = v, !.result = v]

\* EndRaised without the 'except' clause: the fault ends the thread unrecorded
EndRaisedUncaptured(t, e) ==
    [t EXCEPT !.tpc = "dead", !.task = "finished", !.body = "raised",
              !.cancelReq = FALSE, !.bodyExc = e]

\* run(), lines 78-79: the task raised a fault
EndRaised(t, e) ==
    [t EXCEPT !.tpc = "dead", !.task = "finished", !.body = "raised",
              !.cancelReq = FALSE, !.bodyExc = e, !.exception = e]

\* TaskStart on a scheduling loop shared by all jobs, which a suspended body
\* of another job keeps busy
TaskStartSharedLoop(k) ==
    /\ MainRunning
    /\ threads[k].tpc = "loop"
    /\ threads[k].body = "unstarted"
    /\ \A j \in Threads \ {k} : threads[j].body # "suspended"
    /\ threads' = [threads EXCEPT ![k] =
                     IF @.cancelReq THEN EndCancelled([@ EXCEPT !.body = "cancelled"])
                     ELSE [@ EXCEPT !.body = "running"]]
    /\ UNCHANGED <<NEXT_JOB_PID, JOBS, sigint, sigtstp, mainpc, fg>>
    /\ UNCHANGED shellVars
    /\ UNCHANGED resVars
    /\ UNCHANGED appVars

\* the event loop of job k (self._loop, created per job in __init__, line 59)
\* runs the task's first step
TaskStart(k) ==
    /\ MainRunning
    /\ threads[k].tpc = "loop"
    /\ threads[k].body = "unstarted"
    /\ threads' = [threads EXCEPT ![k] =
                     IF @.cancelReq THEN EndCancelled([@ EXCEPT !.body = "cancelled"])
                     ELSE [@ EXCEPT !.body = "running"]]
    /\ UNCHANGED <<NEXT_JOB_PID, JOBS, sigint, sigtstp, mainpc, fg>>
    /\ UNCHANGED shellVars
    /\ UNCHANGED resVars
    /\ UNCHANGED appVars

\* the running body reaches an await
BodySuspend(k) ==
    /\ MainRunning
    /\ threads[k].tpc = "loop"
    /\ threads[k].body = "running"
    /\ threads[k].suspends < MaxSuspends
    /\ threads' = [threads EXCEPT ![k].body = "suspended", ![k].suspends = @ + 1]
    /\ UNCHANGED <<NEXT_JOB_PID, JOBS, sigint, sigtstp, mainpc, fg>>
    /\ UNCHANGED shellVars
    /\ UNCHANGED resVars
    /\ UNCHANGED appVars

\* the running body returns; a cancel requested during this step wins
BodyReturn(k) ==
    /\ MainRunning
    /\ threads[k].tpc = "loop"
    /\ threads[k].body = "running"
    /\ \E v \in BodyValues(k) :
         threads' = [threads EXCEPT ![k] =
                       IF @.cancelReq
                         THEN EndCancelled([@ EXCEPT !.body = "returned", !.bodyRet = v])
                         ELSE EndReturned(@, v)]
    /\ UNCHANGED <<NEXT_JOB_PID, JOBS, sigint, sigtstp, mainpc, fg>>
    /\ UNCHANGED shellVars
    /\ UNCHANGED resVars
    /\ UNCHANGED appVars

\* BodyRaise with the worker taking its job out of the table
BodyRaiseDropping(k) ==
    /\ MainRunning
    /\ threads[k].tpc = "loop"
    /\ threads[k].body = "running"
    /\ \E e \in BodyFaults(k) : threads' = [threads EXCEPT ![k] = EndRaised(@, e)]
    /\ JOBS' = [p \in DOMAIN JOBS \ {threads[k].job_pid} |-> JOBS[p]]
    /\ UNCHANGED <<NEXT_JOB_PID, sigint, sigtstp, mainpc, fg>>
    /\ UNCHANGED shellVars
    /\ UNCHANGED resVars
    /\ UNCHANGED appVars

\* the running body raises a fault
BodyRaise(k) ==
    /\ MainRunning
    /\ threads[k].tpc = "loop"
    /\ threads[k].body = "running"
    /\ \E e \in BodyFaults(k) : threads' = [threads EXCEPT ![k] = EndRaised(@, e)]
    /\ UNCHANGED <<NEXT_JOB_PID, JOBS, sigint, sigtstp, mainpc, fg>>
    /\ UNCHANGED shellVars
    /\ UNCHANGED resVars
    /\ UNCHANGED appVars

\* the event loop resumes the suspended body; with a cancel requested it
\* resumes with CancelledError, which the body catches or lets through
BodyResume(k) ==
    /\ MainRunning
    /\ threads[k].tpc = "loop"
    /\ threads[k].body = "suspended"
    /\ \/ /\ ~threads[k].cancelReq
          /\ threads' = [threads EXCEPT ![k].body = "running"]
       \/ /\ threads[k].cancelReq
          /\ \/ threads' = [threads EXCEPT ![k].body = "running",
                                           ![k].cancelReq = FALSE,
                                           ![k].observed = TRUE]
             \/ threads' = [threads EXCEPT ![k] =
                              EndCancelled([@ EXCEPT !.body = "cancelled",
                                                     !.observed = TRUE])]
    /\ UNCHANGED <<NEXT_JOB_PID, JOBS, sigint, sigtstp, mainpc, fg>>
    /\ UNCHANGED shellVars
    /\ UNCHANGED resVars
    /\ UNCHANGED appVars

\* ------------------------------------------------------ stop / background
\* stop() without self._task.cancel()
stopNoCancel(k, dont_delete) ==
    LET t  == threads[k]
        t2 == [t EXCEPT !.killed = TRUE]
    IN  IF t.task = "None"
          THEN [threads |-> threads, JOBS |-> JOBS, sigint |-> sigint,
                err |-> "AttributeError"]
        ELSE IF dont_delete \/ t.job_pid \notin DOMAIN JOBS
          THEN [threads |-> [threads EXCEPT ![k] = t2], JOBS |-> JOBS,
                sigint |-> t.orig_int, err |-> IF dont_delete THEN "-" ELSE "KeyError"]
        ELSE [threads |-> [threads EXCEPT ![k] = t2],
              JOBS |-> DictDel(JOBS, t.job_pid),
              sigint |-> t.orig_int, err |-> "-"]

\* AsyncCommand.stop(dont_delete): the state it leaves and the error it raises
stop(k, dont_delete) ==
    LET t  == threads[k]
        t1 == [t EXCEPT !.cancelReq = @ \/ (t.task = "pending")]
        t2 == [t1 EXCEPT !.killed = TRUE]
    IN  IF t.task = "None"
          THEN [threads |-> threads, JOBS |-> JOBS, sigint |-> sigint,
                err |-> "AttributeError"]
        ELSE IF t.orig_int = NoHandler
          THEN [threads |-> [threads EXCEPT ![k] = t1], JOBS |-> JOBS,
                sigint |-> sigint, err |-> "TypeError"]
        ELSE IF dont_delete
          THEN [threads |-> [threads EXCEPT ![k] = t2], JOBS |-> JOBS,
                sigint |-> t.orig_int, err |-> "-"]
        ELSE IF t.job_pid \notin DOMAIN JOBS
          THEN [threads |-> [threads EXCEPT ![k] = t2], JOBS |-> JOBS,
                sigint |-> t.orig_int, err |-> "KeyError"]
        ELSE [threads |-> [threads EXCEPT ![k] = t2],
              JOBS |-> DictDel(JOBS, t.job_pid),
              sigint |-> t.orig_int, err |-> "-"]

\* AsyncCommand.background(): the state it leaves and the error it raises
background(k) ==
    LET t1 == [threads[k] EXCEPT !.wait = FALSE]
    IN  IF win32
          THEN [threads |-> [threads EXCEPT ![k] = t1], sigtstp |-> sigtstp,
                err |-> "-"]
        ELSE IF t1.orig_tstp = NoHandler
          THEN [threads |-> [threads EXCEPT ![k] = t1], sigtstp |-> sigtstp,
                err |-> "TypeError"]
        ELSE [threads |-> [threads EXCEPT ![k] = t1], sigtstp |-> t1.orig_tstp,
              err |-> "-"]

\* a call on the main line ends: with err = "-" it returns to where it was,
\* otherwise the error leaves foreground() (if one is running) to the caller
MainEnd(err, f) ==
    IF err = "-"
      THEN /\ mainpc' = mainpc
           /\ fg' = f
    ELSE IF mainpc = "idle"
      THEN /\ mainpc' = "raised"
           /\ fg' = [NoFg EXCEPT !.kind = err]
    ELSE /\ mainpc' = "fg_exit"
         /\ fg' = [f EXCEPT !.kind = err]

\* thread.stop() called from the main line
Stop(k) ==
    /\ mainpc = "idle"
    /\ InTable(k)
    /\ LET r == stop(k, FALSE)
       IN  /\ threads' = r.threads
           /\ JOBS' = r.JOBS
           /\ sigint' = r.sigint
           /\ MainEnd(r.err, fg)
    /\ UNCHANGED <<NEXT_JOB_PID, sigtstp>>
    /\ UNCHANGED shellVars
    /\ UNCHANGED resVars
    /\ UNCHANGED appVars

\* thread.background() called from the main line
Background(k) ==
    /\ mainpc = "idle"
    /\ InTable(k)
    /\ LET r == background(k)
       IN  /\ threads' = r.threads
           /\ sigtstp' = r.sigtstp
           /\ MainEnd(r.err, fg)
    /\ UNCHANGED <<NEXT_JOB_PID, JOBS, sigint>>
    /\ UNCHANGED shellVars
    /\ UNCHANGED resVars
    /\ UNCHANGED appVars

\* SIGINT is delivered: the installed handler runs on the main line
SigInt ==
    /\ MainRunning
    /\ \/ /\ sigint.h = "stop"
          /\ LET r == stop(sigint.t, FALSE)
             IN  /\ threads' = r.threads
                 /\ JOBS' = r.JOBS
                 /\ sigint' = r.sigint
                 /\ MainEnd(r.err, IF mainpc # "idle" /\ sigint.t = fg.k
                                     THEN [fg EXCEPT !.stopd = TRUE] ELSE fg)
       \/ /\ sigint.h = "default"
          /\ MainEnd("KeyboardInterrupt", fg)
          /\ UNCHANGED <<threads, JOBS, sigint>>
    /\ UNCHANGED <<NEXT_JOB_PID, sigtstp>>
    /\ UNCHANGED shellVars
    /\ UNCHANGED resVars
    /\ UNCHANGED appVars

\* SIGTSTP is delivered: the installed handler runs on the main line
SigTstp ==
    /\ MainRunning
    /\ ~win32
    /\ sigtstp.h = "background"
    /\ LET r == background(sigtstp.t)
       IN  /\ threads' = r.threads
           /\ sigtstp' = r.sigtstp
           /\ MainEnd(r.err, IF mainpc # "idle" /\ sigtstp.t = fg.k
                               THEN [fg EXCEPT !.bgd = TRUE] ELSE fg)
    /\ UNCHANGED <<NEXT_JOB_PID, JOBS, sigint>>
    /\ UNCHANGED shellVars
    /\ UNCHANGED resVars
    /\ UNCHANGED appVars

\* ------------------------------------------------------------- foreground
\* how foreground() leaves the with-block
FgExit(kind, val) ==
    /\ mainpc' = "fg_exit"
    /\ fg' = [fg EXCEPT !.kind = kind, !.val = val]

\* FgCall without self._wait = True
FgCallKeepWait(k) ==
    /\ mainpc = "idle"
    /\ InTable(k)
    /\ threads' = threads
    /\ fg' = [NoFg EXCEPT !.k = k, !.prior_int = sigint, !.prior_tstp = sigtstp,
                          !.wasBg = ~threads[k].wait]
    /\ sigtstp' = IF win32 THEN sigtstp ELSE BackgroundHandler(k)
    /\ sigint' = StopHandler(k)
    /\ mainpc' = "fg_loop"
    /\ UNCHANGED <<NEXT_JOB_PID, JOBS>>
    /\ UNCHANGED shellVars
    /\ UNCHANGED resVars
    /\ UNCHANGED appVars

\* foreground(), lines 105-106, and _manipulate_signals(), lines 120-129:
\* self._wait = True, then both temporary handlers are installed
FgCall(k) ==
    /\ mainpc = "idle"
    /\ InTable(k)
    /\ threads' = [threads EXCEPT ![k].wait = TRUE]
    /\ fg' = [NoFg EXCEPT !.k = k, !.prior_int = sigint, !.prior_tstp = sigtstp,
                          !.wasBg = ~threads[k].wait]
    /\ sigtstp' = IF win32 THEN sigtstp ELSE BackgroundHandler(k)
    /\ sigint' = StopHandler(k)
    /\ mainpc' = "fg_loop"
    /\ UNCHANGED <<NEXT_JOB_PID, JOBS>>
    /\ UNCHANGED shellVars
    /\ UNCHANGED resVars
    /\ UNCHANGED appVars

\* values of the argument 'job' of the fg builtin; 0: not given (None)
JobArgs == 0..MaxJobs

\* FgTarget taking the oldest job when no id is given
FgTargetLowest(job) ==
    IF job = 0
      THEN IF DOMAIN JOBS = {} THEN 0
           ELSE CHOOSE p \in DOMAIN JOBS : \A q \in DOMAIN JOBS : p <= q
    ELSE IF job \notin DOMAIN JOBS THEN 0
    ELSE job

\* fg(), lines 216-222: the id of the job to foreground; 0 stands for the
\* command error raised when there is none (sorted(JOBS.keys())[-1] on an
\* empty table, or an id that is not in the table)
FgTarget(job) ==
    IF job = 0
      THEN IF DOMAIN JOBS = {} THEN 0
           ELSE CHOOSE p \in DOMAIN JOBS : \A q \in DOMAIN JOBS : q <= p
    ELSE IF job \notin DOMAIN JOBS THEN 0
    ELSE job

\* the builtin fg [job]: fg(), lines 216-225
fg_command(job) ==
    /\ mainpc = "idle"
    /\ IF FgTarget(job) = 0
         THEN /\ mainpc' = "raised"
              /\ fg' = [NoFg EXCEPT !.kind = "ReclineCommandError"]
              /\ UNCHANGED <<NEXT_JOB_PID, JOBS, threads, sigint, sigtstp>>
              /\ UNCHANGED shellVars
              /\ UNCHANGED resVars
              /\ UNCHANGED appVars
         ELSE FgCall(JOBS[FgTarget(job)])

\* foreground(), lines 107-110: the polling loop ends, then the _killed test
FgLoopExit ==
    /\ mainpc = "fg_loop"
    /\ ~(threads[fg.k].wait /\ is_alive(fg.k))
    /\ IF threads[fg.k].killed
         THEN FgExit("Cancelled", "-")
         ELSE /\ mainpc' = "fg_finish"
              /\ UNCHANGED fg
    /\ UNCHANGED <<NEXT_JOB_PID, JOBS, threads, sigint, sigtstp>>
    /\ UNCHANGED shellVars
    /\ UNCHANGED resVars
    /\ UNCHANGED appVars

\* what the exit of _manipulate_signals(), lines 130-132, installs
RestoredSigtstp(k) == IF win32 THEN sigtstp ELSE threads[k].orig_tstp
RestoredSigint(k) == threads[k].orig_int

\* FgFinish that reads the result and leaves the job in the table
FgFinishKeeping ==
    /\ mainpc = "fg_finish"
    /\ LET t == threads[fg.k]
       IN  IF ~t.wait
             THEN /\ FgExit("Backgrounded", "-")
                  /\ UNCHANGED <<JOBS, sigint, sigtstp>>
           ELSE IF t.job_pid \notin DOMAIN JOBS
             THEN /\ FgExit("KeyError", "-")
                  /\ UNCHANGED <<JOBS, sigint, sigtstp>>
           ELSE IF t.exception # "None"
             THEN /\ JOBS' = DictDel(JOBS, t.job_pid)
                  /\ FgExit("fault", t.exception)
                  /\ UNCHANGED <<sigint, sigtstp>>
           ELSE IF (~win32 /\ t.orig_tstp = NoHandler) \/ t.orig_int = NoHandler
             THEN /\ JOBS' = DictDel(JOBS, t.job_pid)
                  /\ FgExit("TypeError", "-")
                  /\ UNCHANGED <<sigint, sigtstp>>
           ELSE /\ JOBS' = JOBS
                /\ sigtstp' = RestoredSigtstp(fg.k)
                /\ sigint' = RestoredSigint(fg.k)
                /\ FgExit("result", threads[JOBS[t.job_pid]].result)
    /\ UNCHANGED <<NEXT_JOB_PID, threads>>
    /\ UNCHANGED shellVars
    /\ UNCHANGED resVars
    /\ UNCHANGED appVars

\* foreground(), lines 111-116, and the exit of the with-block
FgFinish ==
    /\ mainpc = "fg_finish"
    /\ LET t == threads[fg.k]
       IN  IF ~t.wait
             THEN /\ FgExit("Backgrounded", "-")
                  /\ UNCHANGED <<JOBS, sigint, sigtstp>>
           ELSE IF t.job_pid \notin DOMAIN JOBS
             THEN /\ FgExit("KeyError", "-")
                  /\ UNCHANGED <<JOBS, sigint, sigtstp>>
           ELSE IF t.exception # "None"
             THEN /\ JOBS' = DictDel(JOBS, t.job_pid)
                  /\ FgExit("fault", t.exception)
                  /\ UNCHANGED <<sigint, sigtstp>>
           ELSE IF (~win32 /\ t.orig_tstp = NoHandler) \/ t.orig_int = NoHandler
             THEN /\ JOBS' = DictDel(JOBS, t.job_pid)
                  /\ FgExit("TypeError", "-")
                  /\ UNCHANGED <<sigint, sigtstp>>
           ELSE /\ JOBS' = DictDel(JOBS, t.job_pid)
                /\ sigtstp' = RestoredSigtstp(fg.k)
                /\ sigint' = RestoredSigint(fg.k)
                /\ FgExit("result", threads[JOBS[t.job_pid]].result)
    /\ UNCHANGED <<NEXT_JOB_PID, threads>>
    /\ UNCHANGED shellVars
    /\ UNCHANGED resVars
    /\ UNCHANGED appVars

\* the caller has taken the result or the exception: back at the prompt
MainResume ==
    /\ mainpc \in {"fg_exit", "raised"}
    /\ mainpc' = "idle"
    /\ fg' = NoFg
    /\ UNCHANGED <<NEXT_JOB_PID, JOBS, threads, sigint, sigtstp>>
    /\ UNCHANGED shellVars
    /\ UNCHANGED resVars
    /\ UNCHANGED appVars

\* ----------------------------------------------------------- process exit
\* the job exit_command's loop fails on: the first one, in table order, whose
\* worker has not created its task yet (0: none)
FirstUnstoppable ==
    LET bad == {p \in DOMAIN JOBS : threads[JOBS[p]].task = "None"}
    IN  IF bad = {} THEN 0 ELSE CHOOSE p \in bad : \A q \in bad : p <= q

\* the ids exit_command's loop calls stop(dont_delete=True) on successfully
StoppedAtExit ==
    {p \in DOMAIN JOBS : FirstUnstoppable = 0 \/ p < FirstUnstoppable}

\* exit_command(), lines 173-174: for job in JOBS.values(): job.stop(True)
ExitThreads ==
    [k \in Threads |->
       IF threads[k].job_pid \in StoppedAtExit /\ InTable(k)
         THEN stop(k, TRUE).threads[k]
         ELSE threads[k]]

\* the exit command (aliases quit, q): exit_command(abort_jobs), where answer
\* is the reply to "Are you sure you want to quit?"
ExitCommand ==
    /\ mainpc = "idle"
    /\ \E abort_jobs, answer \in BOOLEAN :
         IF ~abort_jobs /\ JOBS # <<>> /\ ~answer
           THEN UNCHANGED jobVars
         ELSE IF ~abort_jobs /\ JOBS = <<>>
           THEN /\ mainpc' = "exited"
                /\ fg' = [NoFg EXCEPT !.kind = "exit"]
                /\ UNCHANGED <<NEXT_JOB_PID, JOBS, threads, sigint, sigtstp>>
         ELSE /\ threads' = ExitThreads
              /\ sigint' = IF StoppedAtExit = {} THEN sigint
                            ELSE LET last == CHOOSE p \in StoppedAtExit :
                                               \A q \in StoppedAtExit : q <= p
                                 IN  threads[JOBS[last]].orig_int
              /\ IF FirstUnstoppable # 0
                   THEN /\ mainpc' = "raised"
                        /\ fg' = [NoFg EXCEPT !.kind = "AttributeError"]
                        /\ JOBS' = JOBS
                   ELSE /\ mainpc' = "exited"
                        /\ fg' = [NoFg EXCEPT !.kind = "exit",
                                              !.registered = DOMAIN JOBS]
                        /\ JOBS' = <<>>
              /\ UNCHANGED <<NEXT_JOB_PID, sigtstp>>
    /\ UNCHANGED shellVars
    /\ UNCHANGED resVars
    /\ UNCHANGED appVars

\* relax(), lines 106-108: input() raises EOFError, the loop calls sys.exit(0)
EndOfInput ==
    /\ mainpc = "idle"
    /\ mainpc' = "exited"
    /\ fg' = [NoFg EXCEPT !.kind = "EOFError", !.registered = DOMAIN JOBS]
    /\ UNCHANGED <<NEXT_JOB_PID, JOBS, threads, sigint, sigtstp>>
    /\ UNCHANGED shellVars
    /\ UNCHANGED resVars
    /\ UNCHANGED appVars

\* ========================================================================
\* Name resolution: one call of get_command_name on a registry
\* ========================================================================
\* words of the cake example application (examples/cake.py) and of the
\* resolver's tests
cake == <<"c", "a", "k", "e">>
show == <<"s", "h", "o", "w">>
make == <<"m", "a", "k", "e">>
again == <<"a", "g", "a", "i", "n">>
help == <<"h", "e", "l", "p">>
sh == <<"s", "h">>
dash_cake == <<"-", "c", "a", "k", "e">>
one == <<"1">>

Phrase(words) == Join(words, Len(words))

cake_show == Phrase(<<cake, show>>)
cake_make == Phrase(<<cake, make>>)
cake_make_again == Phrase(<<cake, make, again>>)
cake_show_dash_cake == Phrase(<<cake, show, dash_cake>>)

\* the names of the comment in get_command_name(), lines 101-105
deploy == <<"d", "e", "p", "l", "o", "y">>
status == <<"s", "t", "a", "t", "u", "s">>
five == <<"5">>
deploys == deploy \o <<"s">>
deploy_status == Phrase(<<deploy, status>>)
deploy_5 == Phrase(<<deploy, five>>)

\* names a registry may hold
NamePool == {cake_show, cake_make, cake_make_again, cake, help,
             cake_show_dash_cake}
DeployPool == {deploy, deploy_status, deploys}

\* a name given to @recline.command with a blank at its end
help_blank == help \o <<" ">>
BlankPool == {help, help_blank}

\* texts handed to the resolver
Texts == {Phrase(<<cake, show, dash_cake, one>>), cake_make, cake_make_again,
          Phrase(<<cake, sh>>), cake, help, cake_show, <<>>,
          deploy, deploy_5, deploy_status}

\* up to MaxNames distinct names of a pool, in any order
Listings(pool) ==
    {r \in UNION {[1..n -> pool] : n \in 0..MaxNames} :
       \A i, j \in 1..Len(r) : i # j => r[i] # r[j]}

\* list(COMMAND_REGISTRY.keys())
Registries ==
    Listings(NamePool) \cup Listings(DeployPool) \cup Listings(BlankPool)

NameSet(r) == {r[i] : i \in 1..Len(r)}

ResolveInit ==
    /\ rtext \in Texts
    /\ roptions \in Registries
    /\ rexact \in BOOLEAN
    /\ rresult = NoName
    /\ rpc = "call"

\* get_command_name(text, options, exact) is called and returns
Resolve ==
    /\ rpc = "call"
    /\ rresult' = get_command_name(rtext, roptions, rexact)
    /\ rpc' = "done"
    /\ UNCHANGED <<rtext, roptions, rexact>>
    /\ UNCHANGED shellVars
    /\ UNCHANGED jobVars
    /\ UNCHANGED appVars

ResIdle ==
    /\ rtext = <<>> /\ roptions = <<>> /\ rexact = FALSE
    /\ rresult = NoName /\ rpc = "off"

\* ========================================================================
\* Application: registration, completion, start-up
\* ========================================================================
\* the functions the application decorates with @recline.command; "g" is a
\* coroutine function (async def), "debug" the hidden builtin
Funcs == {"f", "g"}
debug == <<"d", "e", "b", "u", "g">>
go == <<"g", "o">>
q == <<"q">>

\* func.__name__
FuncName(func) == IF func = "debug" THEN debug ELSE <<func>>

\* inspect.iscoroutinefunction(func), cli_command.py line 364
IsCoroutine(func) == func = "g"

\* values of the parameter 'hidden': a constant, or a callable evaluated
\* whenever CLICommand.hidden is read
HiddenValues == {"False", "True", "callable"}

\* values of the parameter 'aliases'; <<>> stands for None and for []
AliasLists == {<<>>, <<q>>, <<go>>}

\* Python None where a CLICommand is expected
NoCommand == [func |-> "None", name |-> NoName, is_alias |-> FALSE,
              hidden |-> "False", is_async |-> FALSE]

\* CLICommand.__init__: the fields the registry and the shell consult; the
\* parameter list (required_args, optional_args) is computed from func alone
CLICommand(func, name, is_alias, hidden, is_async) ==
    [func |-> func, name |-> IF name = NoName THEN FuncName(func) ELSE name,
     is_alias |-> is_alias, hidden |-> hidden, is_async |-> is_async]

\* CLICommand.hidden, with value the result of the callable at this moment
Hidden(command, value) ==
    IF command.hidden = "callable" THEN value ELSE command.hidden = "True"

\* _register(), lines 396-401: the loop over the names, primary name first
RECURSIVE RegisterLoop(_, _, _, _, _, _)
RegisterLoop(registry, aliases, index, func, hidden, is_async) ==
    IF index > Len(aliases) THEN registry
    ELSE RegisterLoop(
           DictSet(registry, aliases[index],
                   CLICommand(func, aliases[index], index > 1, hidden, is_async)),
           aliases, index + 1, func, hidden, is_async)

\* _register with a later start or exit command replacing the earlier one
_registerReplacing(func, name, aliases, atstart, atexit, hidden, is_async) ==
    IF atstart
      THEN [registry |-> COMMAND_REGISTRY,
            start |-> CLICommand(func, NoName, FALSE, "False", FALSE),
            exit |-> EXIT_COMMAND, err |-> "-"]
    ELSE IF atexit
      THEN [registry |-> COMMAND_REGISTRY, start |-> START_COMMAND,
            exit |-> CLICommand(func, NoName, FALSE, "False", FALSE), err |-> "-"]
    ELSE LET command_name == IF name # NoName THEN name ELSE FuncName(func)
         IN  [registry |-> RegisterLoop(COMMAND_REGISTRY, <<command_name>> \o aliases,
                                        1, func, hidden, is_async),
              start |-> START_COMMAND, exit |-> EXIT_COMMAND, err |-> "-"]

\* _register(func, name, group, aliases, atstart, atexit, hidden, is_async):
\* what it leaves in the registry and the two slots, and the error it raises
\* (group is carried into the entry and consulted by the help text only)
_register(func, name, aliases, atstart, atexit, hidden, is_async) ==
    IF atstart
      THEN IF START_COMMAND # NoCommand
             THEN [registry |-> COMMAND_REGISTRY, start |-> START_COMMAND,
                   exit |-> EXIT_COMMAND, err |-> "RuntimeError"]
             ELSE [registry |-> COMMAND_REGISTRY,
                   start |-> CLICommand(func, NoName, FALSE, "False", FALSE),
                   exit |-> EXIT_COMMAND, err |-> "-"]
    ELSE IF atexit
      THEN IF EXIT_COMMAND # NoCommand
             THEN [registry |-> COMMAND_REGISTRY, start |-> START_COMMAND,
                   exit |-> EXIT_COMMAND, err |-> "RuntimeError"]
             ELSE [registry |-> COMMAND_REGISTRY, start |-> START_COMMAND,
                   exit |-> CLICommand(func, NoName, FALSE, "False", FALSE),
                   err |-> "-"]
    ELSE LET command_name == IF name # NoName THEN name ELSE FuncName(func)
         IN  [registry |-> RegisterLoop(COMMAND_REGISTRY, <<command_name>> \o aliases,
                                        1, func, hidden, is_async),
              start |-> START_COMMAND, exit |-> EXIT_COMMAND, err |-> "-"]

\* the builtin commands registered when recline is imported: debug, hidden
Builtins ==
    RegisterLoop(<<>>, <<debug>>, 1, "debug", "True", FALSE)

NoReg == [func |-> "None", name |-> NoName, aliases |-> <<>>, atstart |-> FALSE,
          atexit |-> FALSE, hidden |-> "False", err |-> "-"]
NoShown == [text |-> <<>>, matches |-> <<>>, err |-> "-", responses |-> <<>>,
            hiddenNow |-> {}, called |-> FALSE]
NoTyped == [text |-> <<>>, name |-> NoName, func |-> "None"]

AppInit ==
    /\ COMMAND_REGISTRY = Builtins
    /\ START_COMMAND = NoCommand
    /\ EXIT_COMMAND = NoCommand
    /\ apc = "import"
    /\ nreg = 0
    /\ lastReg = NoReg
    /\ started = "-"
    /\ shown = NoShown
    /\ typed = NoTyped

\* a use of the decorator @recline.command(...) on one of the functions:
\* command(), line 370. With atstart or atexit set the other arguments are
\* not looked at
Register ==
    /\ apc = "import"
    /\ nreg < MaxRegs
    /\ \E func \in Funcs, atstart, atexit \in BOOLEAN :
         \E name \in (IF atstart \/ atexit THEN {NoName} ELSE {NoName, go}),
            aliases \in (IF atstart \/ atexit THEN {<<>>} ELSE AliasLists),
            hidden \in (IF atstart \/ atexit THEN {"False"} ELSE HiddenValues) :
           LET r == _register(func, name, aliases, atstart, atexit, hidden,
                             IsCoroutine(func))
           IN  /\ COMMAND_REGISTRY' = r.registry
               /\ START_COMMAND' = r.start
               /\ EXIT_COMMAND' = r.exit
               /\ lastReg' = [func |-> func, name |-> name, aliases |-> aliases,
                              atstart |-> atstart, atexit |-> atexit,
                              hidden |-> hidden, err |-> r.err]
    /\ nreg' = nreg + 1
    /\ UNCHANGED <<apc, started, shown, typed>>
    /\ UNCHANGED shellVars
    /\ UNCHANGED jobVars
    /\ UNCHANGED resVars

\* relax() up to the main loop: _setup_repl(), lines 205-209, runs the start
\* command through _run_command(). Its is_async is False (line 379 passes
\* func only), so line 229 calls command.func(): a plain function runs and
\* returns or raises; a coroutine function returns a coroutine object that
\* nothing awaits, its body is not executed
Relax ==
    /\ apc = "import"
    /\ IF START_COMMAND = NoCommand
         THEN /\ started' = "-"
              /\ apc' = "loop"
         ELSE IF IsCoroutine(START_COMMAND.func) /\ ~START_COMMAND.is_async
           THEN /\ started' = "never awaited"
                /\ apc' = "loop"
         ELSE \/ /\ started' = "returned"
                 /\ apc' = "loop"
              \/ /\ started' = "raised"
                 /\ apc' = "fatal"
    /\ UNCHANGED <<COMMAND_REGISTRY, START_COMMAND, EXIT_COMMAND, nreg, lastReg,
                   shown, typed>>
    /\ UNCHANGED shellVars
    /\ UNCHANGED jobVars
    /\ UNCHANGED resVars

\* order of the characters that occur in names
CharOrder == <<" ", "b", "d", "e", "f", "g", "o", "q", "u", "x">>
Rank(c) == CHOOSE i \in 1..Len(CharOrder) : CharOrder[i] = c

\* Python's order on strings
RECURSIVE StrLess(_, _)
StrLess(a, b) ==
    IF b = <<>> THEN FALSE
    ELSE IF a = <<>> THEN TRUE
    ELSE IF Head(a) = Head(b) THEN StrLess(Tail(a), Tail(b))
    ELSE Rank(Head(a)) < Rank(Head(b))

\* sorted(S)
RECURSIVE Sorted(_)
Sorted(S) ==
    IF S = {} THEN <<>>
    ELSE LET m == CHOOSE x \in S : \A y \in S \ {x} : StrLess(x, y)
         IN  <<m>> \o Sorted(S \ {m})

\* CommandCompleter.__init__: self.options
options == Sorted(DOMAIN COMMAND_REGISTRY)

\* _parse_around_booleans(): the part of the text after the last operator
right_hand_side(text) ==
    LET a == Split(text, AND)
        b == Split(a[Len(a)], OR)
        c == Split(b[Len(b)], SEMI)
    IN  LStrip(c[Len(c)])

\* s[::-1]
RECURSIVE Reverse(_)
Reverse(s) == IF s = <<>> THEN <<>> ELSE Reverse(Tail(s)) \o <<Head(s)>>

\* s.replace(old, '', 1)
RemoveFirst(s, old) ==
    LET i == Find(s, old)
    IN  IF old = <<>> \/ i = 0 THEN s
        ELSE SubSeq(s, 1, i - 1) \o SubSeq(s, i + Len(old), Len(s))

\* s.replace(old, '')
RECURSIVE RemoveAll(_, _)
RemoveAll(s, old) ==
    LET i == Find(s, old)
    IN  IF old = <<>> \/ i = 0 THEN s
        ELSE SubSeq(s, 1, i - 1) \o RemoveAll(SubSeq(s, i + Len(old), Len(s)), old)

\* left_hand_side that forgets the text before the operator
left_hand_sideDropped(text) == <<>>

\* _parse_around_booleans(), lines 163-164: the text without its last
\* segment (the segment is taken before its blanks are stripped)
left_hand_side(text) ==
    LET a == Split(text, AND)
        b == Split(a[Len(a)], OR)
        c == Split(b[Len(b)], SEMI)
    IN  Reverse(RemoveFirst(Reverse(text), Reverse(c[Len(c)])))

\* completer(), lines 192-196: the string handed back to readline for one
\* match; the cursor is at the end of the line, so the line buffer is text
Response(text, match) ==
    LET prefix == left_hand_side(text)
        rhs == right_hand_side(text)
        current_line == text
        response == prefix \o <<" ">> \o RStrip(match)
        rest == RemoveAll(LStrip(RemoveAll(current_line, prefix)), rhs)
    IN  LStrip(IF StartsWith(rest, <<" ">>) THEN response
               ELSE response \o <<" ">>)

\* what one TAB shows: completer(text, 0) builds self.matches. For a text
\* that names a command the matches come from _get_command_matches(), which
\* reads the attribute completer_parser that CLICommand does not define
completer(text) ==
    LET rhs == right_hand_side(text)
        command_name == get_command_name(rhs, options, FALSE)
    IN  IF command_name # NoName
          THEN [matches |-> <<>>, err |-> "AttributeError"]
        ELSE IF rhs # <<>>
          THEN [matches |-> SelectSeq(options, LAMBDA x : StartsWith(x, Strip(rhs))),
                err |-> "-"]
        ELSE [matches |-> options, err |-> "-"]

\* texts at which the user asks for completion
TabTexts == {<<>>, <<"d", "e">>, <<"g">>, <<"q", ";", "d">>, <<"x">>,
             <<"q", "&", "&", " ", "d">>, <<" ", "q", ";", "d">>,
             <<"x", ";", "g", "|", "|">>, <<"q", "|", "|", "x", ";", " ", "g", "o">>}

\* the user presses TAB in the loop; value: what the 'hidden' callables
\* return at this moment
Complete ==
    /\ apc = "loop"
    /\ \E text \in TabTexts, value \in BOOLEAN :
         LET r == completer(text)
         IN  shown' = [text |-> text, matches |-> r.matches, err |-> r.err,
                       responses |-> [i \in 1..Len(r.matches) |->
                                        Response(text, r.matches[i])],
                       hiddenNow |-> {x \in DOMAIN COMMAND_REGISTRY :
                                        Hidden(COMMAND_REGISTRY[x], value)},
                       called |-> TRUE]
    /\ typed' = NoTyped
    /\ UNCHANGED <<COMMAND_REGISTRY, START_COMMAND, EXIT_COMMAND, apc, nreg,
                   lastReg, started>>
    /\ UNCHANGED shellVars
    /\ UNCHANGED jobVars
    /\ UNCHANGED resVars

\* the loop reads a line that is the name of a command, or "x", and runs it:
\* run_one_command(), lines 144-150
TypeCommand ==
    /\ apc = "loop"
    /\ \E text \in DOMAIN COMMAND_REGISTRY \cup {<<"x">>} :
         LET command_name == get_command_name(text, options, TRUE)
         IN  typed' = [text |-> text, name |-> command_name,
                       func |-> IF command_name \in DOMAIN COMMAND_REGISTRY
                                  THEN COMMAND_REGISTRY[command_name].func
                                  ELSE "None"]
    /\ shown' = NoShown
    /\ UNCHANGED <<COMMAND_REGISTRY, START_COMMAND, EXIT_COMMAND, apc, nreg,
                   lastReg, started>>
    /\ UNCHANGED shellVars
    /\ UNCHANGED jobVars
    /\ UNCHANGED resVars

AppIdle ==
    /\ COMMAND_REGISTRY = <<>> /\ START_COMMAND = NoCommand
    /\ EXIT_COMMAND = NoCommand /\ apc = "off" /\ nreg = 0 /\ lastReg = NoReg
    /\ started = "-" /\ shown = NoShown /\ typed = NoTyped

\* ========================================================================
\* Specifications
\* ========================================================================
ShellIdle ==
    /\ line = <<>> /\ arg = <<>> /\ shpc = "off" /\ stack = <<>>
    /\ retval = 0 /\ trace = <<>> /\ lastFrame = NoFrame

JobsIdle ==
    /\ NEXT_JOB_PID = 1 /\ JOBS = <<>> /\ threads = <<>>
    /\ sigint = Default /\ sigtstp = Default
    /\ mainpc = "idle" /\ fg = NoFg

\* the interpreter evaluating one line
Init == ShellInit /\ JobsIdle /\ ResIdle /\ AppIdle

Next ==
    \/ ExecuteCompound
    \/ ForNext
    \/ ForDone
    \/ SegmentReturn
    \/ ExecuteDone
    \/ RunOneCommand

Spec == Init /\ [][Next]_vars

\* the job supervisor driven by the main line, the workers and the signals
JobsInit == JobInit /\ ShellIdle /\ ResIdle /\ AppIdle

JobsNext ==
    \/ Spawn
    \/ \E k \in Threads : RunCreateTask(k)
    \/ \E k \in Threads : TaskStart(k)
    \/ \E k \in Threads : BodySuspend(k)
    \/ \E k \in Threads : BodyReturn(k)
    \/ \E k \in Threads : BodyRaise(k)
    \/ \E k \in Threads : BodyResume(k)
    \/ \E k \in Threads : Stop(k)
    \/ \E k \in Threads : Background(k)
    \/ SigInt
    \/ SigTstp
    \/ \E job \in JobArgs : fg_command(job)
    \/ FgLoopExit
    \/ FgFinish
    \/ MainResume
    \/ ExitCommand
    \/ EndOfInput

SpecJobs == JobsInit /\ [][JobsNext]_vars

\* the resolver applied to every text and registry within the bounds
ResolveFullInit == ResolveInit /\ ShellIdle /\ JobsIdle /\ AppIdle

ResolveNext == Resolve

SpecResolve == ResolveFullInit /\ [][ResolveNext]_vars

\* the application from the registration of its commands to the main loop
AppFullInit == AppInit /\ ShellIdle /\ JobsIdle /\ ResIdle

AppNext ==
    \/ Register
    \/ Relax
    \/ Complete
    \/ TypeCommand

SpecApp == AppFullInit /\ [][AppNext]_vars

\* ========================================================================
\* Properties of the interpreter (checked under Spec)
\* ========================================================================
\* the exit code of the simple command that ran last
LastCode == trace[Len(trace)].code

\* C1: in a line "a&&b" segment b is executed if and only if segment a's exit
\* code is 0, whatever its sign: every segment that was followed by another
\* one returned 0, the loop stops early only after a nonzero exit code, and
\* the line's exit code is that of the last segment executed.
C1_AndRunsNextIffZero ==
    /\ lastFrame.op = AND =>
         /\ \A i \in 1..(Len(lastFrame.codes) - 1) : lastFrame.codes[i] = 0
         /\ Len(lastFrame.codes) < Len(lastFrame.segs) =>
              lastFrame.codes[Len(lastFrame.codes)] # 0
    /\ (shpc = "done" /\ CompoundOp(line) = AND) => retval = LastCode

\* C2: in a line "a||b" without ';' and '&&' segment b is executed if and
\* only if segment a's exit code is nonzero: every segment that was followed
\* by another one returned nonzero, and the loop stops early only at a
\* segment whose exit code is 0.
C2_OrRunsNextIffNonzero ==
    lastFrame.op = OR =>
      /\ \A i \in 1..(Len(lastFrame.codes) - 1) : lastFrame.codes[i] # 0
      /\ Len(lastFrame.codes) < Len(lastFrame.segs) =>
           lastFrame.codes[Len(lastFrame.codes)] = 0
      /\ lastFrame.ran = SubSeq(lastFrame.segs, 1, Len(lastFrame.codes))

\* "a||b": a failed with a negative code, so b ran
C2_Witness ==
    /\ shpc = "done"
    /\ lastFrame.op = OR
    /\ Len(lastFrame.codes) = 2
    /\ lastFrame.codes[1] < 0
    /\ Len(trace) = 2

\* C3: a line with ';' runs every ';'-separated segment, left to right,
\* whatever the earlier segments returned, and returns the exit code of the
\* last segment.
C3_SemiRunsEverySegment ==
    /\ lastFrame.op = SEMI =>
         /\ lastFrame.ran = lastFrame.segs
         /\ Len(lastFrame.codes) = Len(lastFrame.segs)
    /\ (shpc = "done" /\ CompoundOp(line) = SEMI) =>
         /\ retval = LastCode
         /\ (\A i \in 1..Len(lastFrame.segs) : CompoundOp(lastFrame.segs[i]) = <<>>) =>
              /\ Len(trace) = Len(lastFrame.segs)
              /\ \A i \in 1..Len(trace) : trace[i].seg = Strip(lastFrame.segs[i])

\* "a;b": a failed to parse its arguments (exit code 2), b still ran
C3_Witness ==
    /\ shpc = "done"
    /\ lastFrame.op = SEMI
    /\ Len(trace) = 2
    /\ trace[1].kind = "SystemExit" /\ trace[1].code = 2
    /\ trace[2].name # NoName /\ trace[2].code = 0
    /\ retval = 0

\* ========================================================================
\* Properties of the job supervisor (checked under SpecJobs)
\* ========================================================================
FgEnded == mainpc = "fg_exit"
FgJob == threads[fg.k]

\* no stop and no background request reached the job during this call
FgUndisturbed == ~FgJob.killed /\ ~fg.bgd

\* C4: when the body of a spawned job returns normally and foreground is
\* called on the job, foreground returns exactly the value the body returned
\* and the job's id is absent from the table afterwards.
C4_ForegroundReturnsResult ==
    FgEnded =>
      /\ fg.kind = "result" =>
           /\ FgJob.body = "returned"
           /\ fg.val = FgJob.bodyRet
           /\ FgJob.job_pid \notin DOMAIN JOBS
      /\ (FgJob.body = "returned" /\ FgUndisturbed) => fg.kind = "result"

C4_Witness ==
    /\ FgEnded /\ fg.kind = "result" /\ fg.val = "v1" /\ fg.k = 1
    /\ FgJob.bodyRet = "v1"
    /\ 1 \notin DOMAIN JOBS

\* C5: a fault raised inside a job's body is captured by the worker and does
\* not reach the main line when it occurs; only a later foreground call on
\* that job raises it, the same fault, and removes the job from the table.
C5_FaultRaisedByForegroundOnly ==
    /\ \A k \in Threads :
         threads[k].body = "raised" =>
           /\ threads[k].exception = threads[k].bodyExc
           /\ threads[k].tpc = "dead"
    /\ mainpc = "raised" =>
         fg.kind \in {"AttributeError", "TypeError", "KeyError", "KeyboardInterrupt",
                      "ReclineCommandError"}
    /\ FgEnded =>
         /\ fg.kind = "fault" =>
              /\ FgJob.body = "raised"
              /\ fg.val = FgJob.bodyExc
              /\ FgJob.job_pid \notin DOMAIN JOBS
         /\ (FgJob.body = "raised" /\ FgUndisturbed) => fg.kind = "fault"

C5_Witness ==
    /\ FgEnded /\ fg.kind = "fault" /\ fg.val = "e1" /\ fg.k = 1
    /\ FgJob.bodyExc = "e1"
    /\ 1 \notin DOMAIN JOBS

\* C6: stop (retain not set) on a job whose body is running removes the job's
\* id from the table, and the body observes the cancellation at its next
\* suspension point: the request stays pending until then, and a stopped body
\* leaves a suspension point only with the cancellation delivered to it.
C6_StopCancelsAndRemoves ==
    /\ [](\A k \in Threads :
            (threads[k].killed /\ threads[k].tpc = "loop" /\ ~threads[k].observed)
              => threads[k].cancelReq)
    /\ [][\A k \in Threads :
            (~threads[k].killed /\ threads'[k].killed /\ ~ExitCommand)
              => threads[k].job_pid \notin DOMAIN JOBS']_vars
    /\ [][\A k \in Threads :
            (threads[k].killed /\ ~threads[k].observed
               /\ threads[k].body = "suspended" /\ threads'[k].body # "suspended")
              => threads'[k].observed]_vars

\* a stopped job whose body has observed the cancellation
C6_Witness ==
    \E k \in Threads :
      /\ threads[k].killed /\ threads[k].observed
      /\ threads[k].job_pid \notin DOMAIN JOBS
      /\ threads[k].tpc = "dead"

\* C7: a job that was backgrounded and is foregrounded later, before or after
\* its body finishes, yields the result (or the fault) its body ends with;
\* backgrounding changes nothing in the worker and leaves the job in the table.
C7_BackgroundThenForeground ==
    /\ [](FgEnded /\ fg.wasBg /\ FgUndisturbed =>
            /\ FgJob.body = "returned" =>
                 fg.kind = "result" /\ fg.val = FgJob.bodyRet
            /\ FgJob.body = "raised" =>
                 fg.kind = "fault" /\ fg.val = FgJob.bodyExc)
    /\ [][\A k \in Threads :
            (threads[k].wait /\ ~threads'[k].wait) =>
              /\ threads'[k] = [threads[k] EXCEPT !.wait = FALSE]
              /\ JOBS' = JOBS]_vars

C7_Witness ==
    /\ FgEnded /\ fg.wasBg /\ ~fg.bgd
    /\ fg.kind = "result" /\ fg.val = "v1"

\* C8: the k-th job created gets id k (the counter starts at 1 and grows by
\* exactly 1 per spawn), is entered in the table under that id, and ids are
\* distinct, increasing in creation order and never reused.
C8_JobIdsUniqueIncreasing ==
    /\ NEXT_JOB_PID = Len(threads) + 1
    /\ \A k \in Threads : threads[k].job_pid = k
    /\ \A j, k \in Threads : j < k => threads[j].job_pid < threads[k].job_pid
    /\ \A p \in DOMAIN JOBS : p < NEXT_JOB_PID /\ threads[JOBS[p]].job_pid = p
    /\ \A k \in Threads : threads[k].tpc = "start" /\ ~threads[k].killed
                            => InTable(k)

\* the second job was given id 2 although the first one has left the table
C8_Witness ==
    /\ Len(threads) = 2
    /\ 1 \notin DOMAIN JOBS /\ threads[1].tpc = "dead"
    /\ 2 \in DOMAIN JOBS /\ threads[2].job_pid = 2 /\ NEXT_JOB_PID = 3

\* C9: on every exit path of foreground (result, Cancelled, Backgrounded,
\* captured fault) both handlers that were installed before the call are
\* installed again.
C9_HandlersRestoredOnEveryExit ==
    (FgEnded /\ fg.kind \in {"result", "Cancelled", "Backgrounded", "fault"}) =>
      /\ sigint = fg.prior_int
      /\ sigtstp = fg.prior_tstp

\* C10: a backgrounding request that arrives while foreground waits on a job
\* ends the call with Backgrounded for that job, which stays in the table.
C10_BackgroundedMidWait ==
    (FgEnded /\ fg.bgd /\ ~FgJob.killed) =>
      /\ fg.kind = "Backgrounded"
      /\ InTable(fg.k)

\* C11: a stop request that arrives while foreground waits on a job ends that
\* call with Cancelled, and the job is absent from the table at that moment.
C11_StoppedMidWait ==
    (FgEnded /\ fg.stopd) =>
      /\ fg.kind = "Cancelled"
      /\ FgJob.job_pid \notin DOMAIN JOBS

\* C12: on every path by which the process exits (the exit command, with or
\* without confirmation, and end-of-input), every job that was still in the
\* table has been sent stop with retain set before the exit.
C12_JobsStoppedBeforeExit ==
    mainpc = "exited" =>
      \A k \in Threads :
        threads[k].job_pid \in fg.registered =>
          /\ threads[k].killed
          /\ threads[k].cancelReq \/ threads[k].task = "finished"

\* ========================================================================
\* Properties of the name resolver (checked under SpecResolve)
\* ========================================================================
Resolved == rpc = "done"
Names == NameSet(roptions)
cake_show_args == Phrase(<<cake, show, dash_cake, one>>)
CakeRegistry == {cake_show, cake_make, cake_make_again} \subseteq Names

\* the words of a are the first words of b
WordPrefix(a, b) ==
    LET wa == Split(a, <<" ">>)
        wb == Split(b, <<" ">>)
    IN  Len(wa) <= Len(wb) /\ \A i \in 1..Len(wa) : wa[i] = wb[i]

C14_ExactMatchReturned ==
    (Resolved /\ rexact /\ InList(rtext, roptions)) => rresult = rtext

C14_Witness ==
    /\ Resolved /\ rexact /\ rtext = cake_make
    /\ {cake_make, cake_make_again} \subseteq Names
    /\ rresult = cake_make

\* C15: with exact false, a text that is a registered name and whose words are
\* the first words of another registered name resolves to nothing: at every
\* prefix length more than one name starts with the prefix and the word-wise
\* test does not leave exactly one.
C15_AmbiguousNameAbsent ==
    (Resolved /\ ~rexact /\ rtext \in Names
       /\ \E m \in Names : m # rtext /\ WordPrefix(rtext, m)) =>
      /\ rresult = NoName
      /\ LET pieces == Split(rtext, <<" ">>)
         IN  \A i \in 1..Len(pieces) :
               LET possibles == SelectSeq(roptions,
                                  LAMBDA x : StartsWith(x, Join(pieces, i)))
               IN  /\ Len(possibles) > 1
                   /\ Len(SelectSeq(possibles,
                                    LAMBDA x : StillPossible(x, pieces))) > 1

C15_Witness ==
    /\ Resolved /\ ~rexact /\ rtext = cake_make
    /\ {cake_make, cake_make_again} \subseteq Names
    /\ rresult = NoName

\* C16: when the first i words of the text are a string prefix of exactly one
\* registered name that differs from them, the resolver retries with i-1
\* words: with the names "cake" and "cake show" the text "cake sh" resolves to
\* "cake".
C16_RetriesShorterPrefix ==
    (Resolved /\ rtext = Phrase(<<cake, sh>>) /\ Names = {cake, cake_show})
      => rresult = cake

\* C17: the result does not depend on the order in which the registered names
\* are listed: every listing of the same set of names gives the value returned.
C17_OrderIndependent ==
    Resolved =>
      \A r \in [1..Len(roptions) -> Names] :
        NameSet(r) = Names => get_command_name(rtext, r, rexact) = rresult

\* the name resolved is listed last
C17_Witness ==
    /\ Resolved /\ ~rexact /\ rtext = cake_show_args
    /\ roptions = <<cake_make_again, cake_make, cake_show>>
    /\ rresult = cake_show

\* ========================================================================
\* Further properties of the interpreter (checked under Spec)
\* ========================================================================
Done == shpc = "done"

\* C18: mixed lines are evaluated by precedence level, ';' widest, then '&&',
\* then '||'. "a&&b||a" is a && (b || a): when the first command's exit code
\* is nonzero nothing else runs, otherwise b runs and the last command runs
\* exactly when b failed. "a;b||a" runs a and then (b || a) whatever a
\* returned.
C18_MixedByPrecedence ==
    /\ (Done /\ line = a_and_b_or_a) =>
         /\ trace[1].code # 0 => Len(trace) = 1
         /\ trace[1].code = 0 =>
              /\ Len(trace) >= 2
              /\ Len(trace) = 3 <=> trace[2].code # 0
    /\ (Done /\ line = a_semi_b_or_a) =>
         /\ Len(trace) >= 2
         /\ trace[1].seg = <<"a">> /\ trace[2].seg = <<"b">>
         /\ Len(trace) = 3 <=> trace[2].code # 0

\* the simple command about to be run resolves to no registered command
UnknownNext ==
    /\ shpc = "call"
    /\ CompoundOp(arg) = <<>>
    /\ ~InList(get_command_name(Strip(arg), RegistryNames, TRUE), RegistryNames)

\* C19: a simple command whose text resolves to no registered command yields
\* exit code 1 and leaves the job table, the job objects and the job-id
\* counter as they were (nothing on that path writes the registry).
C19_UnknownCommandExitsOne ==
    /\ [](\A i \in 1..Len(trace) :
            trace[i].kind = "Unknown command" <=> trace[i].name = NoName)
    /\ [][UnknownNext =>
            /\ retval' = 1
            /\ trace'[Len(trace')].kind = "Unknown command"
            /\ trace'[Len(trace')].code = 1
            /\ JOBS' = JOBS
            /\ NEXT_JOB_PID' = NEXT_JOB_PID
            /\ threads' = threads]_vars

\* an unknown command run while a job started by the same line is in the table
C19_Witness ==
    /\ Done /\ Len(trace) = 2
    /\ trace[1].kind = "CommandBackgrounded" /\ 1 \in DOMAIN JOBS
    /\ trace[2].kind = "Unknown command"
    /\ retval = 1 /\ NEXT_JOB_PID = 2

Faults == {"ReclineTypeError", "ReclineCommandError", "Exception"}

\* the body of the command run as the i-th simple command is still being
\* executed: the worker it was handed to has not ended
BodyLive(i) ==
    \E k \in Threads : threads[k].job_pid = trace[i].job /\ is_alive(k)

\* the step is a run of one simple command that ended with a fault
FaultStep ==
    /\ Len(trace') = Len(trace) + 1
    /\ trace'[Len(trace')].kind \in Faults

\* C21: a validation error, a command error or an unexpected fault raised
\* while one simple command runs does not leave execute(): the segment's exit
\* code is nonzero, execute() goes on with the loop it is in, and nothing of
\* the command's body is executed after the fault.
C21_FaultContained ==
    /\ [](\A i \in 1..Len(trace) :
            trace[i].kind \in Faults => trace[i].code # 0 /\ ~BodyLive(i))
    /\ [][FaultStep => /\ shpc' = "ret"
                       /\ stack' = stack
                       /\ retval' = trace'[Len(trace')].code]_vars

\* ------------------------------------------------------------------ C22
\* the jobs of the table, most recently created last
TableJobs == {k \in Threads : InTable(k)}

\* the step is a call of the fg builtin that entered foreground()
FgEntered == mainpc = "idle" /\ mainpc' = "fg_loop"

\* the step is a call of the fg builtin that failed with a command error
FgRefused ==
    mainpc = "idle" /\ mainpc' = "raised" /\ fg'.kind = "ReclineCommandError"

BackgroundStep ==
    /\ Len(trace') = Len(trace) + 1
    /\ trace'[Len(trace')].job # 0
    /\ trace'[Len(trace')].background

C24_ForegroundWaitsForJob ==
    \A i \in 1..Len(trace) :
      (trace[i].job # 0 /\ ~trace[i].background) =>
        /\ ~BodyLive(i)
        /\ trace[i].job \notin DOMAIN JOBS
        /\ trace[i].kind \in {"none", "return"} => trace[i].code = trace[i].val
        /\ trace[i].kind \notin Faults

\* ------------------------------------------------------------------ C25
\* the step is taken by a worker: nothing of the main line changes
WorkerStep ==
    /\ threads' # threads
    /\ UNCHANGED <<NEXT_JOB_PID, JOBS, sigint, sigtstp, mainpc, fg>>

\* C25: every job has its own worker and its own scheduling loop. Whatever
\* state the other jobs are in (suspended, never finishing), a job that has
\* not ended can take its next step towards a terminal state, a worker's step
\* changes that job only, and the main line at the prompt can spawn a job and
\* background, stop or foreground any job in the table.
C25_JobsDoNotBlockEachOther ==
    /\ [](\A j \in Threads :
            MainRunning =>
              /\ threads[j].tpc = "start" => ENABLED RunCreateTask(j)
              /\ (threads[j].tpc = "loop" /\ threads[j].body = "unstarted")
                   => ENABLED TaskStart(j)
              /\ (threads[j].tpc = "loop" /\ threads[j].body = "running")
                   => ENABLED BodyReturn(j)
              /\ (threads[j].tpc = "loop" /\ threads[j].body = "suspended")
                   => ENABLED BodyResume(j))
    /\ [](mainpc = "idle" =>
            /\ Len(threads) < MaxJobs => ENABLED Spawn
            /\ \A k \in TableJobs :
                 /\ ENABLED Stop(k)
                 /\ ENABLED Background(k)
                 /\ ENABLED fg_command(threads[k].job_pid))
    /\ [][WorkerStep =>
            \E j \in Threads : \A k \in Threads \ {j} : threads'[k] = threads[k]]_vars

\* job 2 ran to completion and delivered its result while job 1 stayed
\* suspended
C25_Witness ==
    /\ Len(threads) = 2
    /\ threads[1].tpc = "loop" /\ threads[1].body = "suspended"
    /\ FgEnded /\ fg.k = 2 /\ fg.kind = "result" /\ fg.val \in BodyValues(2)

\* ------------------------------------------------------------------ C26
\* the states of a job, read from the fields of its AsyncCommand object
\* Completed: run() has ended and stored the body's value in self.result
Completed(k) == threads[k].tpc = "dead" /\ threads[k].result # "None"
\* Failed: run() has stored the body's fault in self.exception
Failed(k) == threads[k].exception # "None"
\* Cancelled: stop() has set self._killed
Cancelled(k) == threads[k].killed
\* Running: as __init__ leaves the object
Running(k) ==
    /\ ~Completed(k) /\ ~Failed(k) /\ ~Cancelled(k)
    /\ threads[k].wait /\ is_alive(k)

\* C26: a job starts Running; Completed, Cancelled and Failed are terminal:
\* no later operation moves a job out of one of them into another, so a
\* Completed or Failed job is never marked Cancelled afterwards and a
\* Cancelled job never has or delivers a result afterwards.
C26_TerminalStatesFinal ==
    /\ [][\A k \in Threads' \ Threads : Running(k)']_vars
    /\ [][\A k \in Threads :
            /\ (Completed(k) \/ Failed(k)) /\ ~Cancelled(k) => ~Cancelled(k)'
            /\ Completed(k) => Completed(k)' /\ ~Failed(k)'
            /\ Failed(k) => Failed(k)' /\ ~Completed(k)'
            /\ Cancelled(k) => Cancelled(k)' /\ ~Completed(k)' /\ ~Failed(k)']_vars
    /\ [](FgEnded /\ fg.kind = "result" => ~Cancelled(fg.k))

\* ========================================================================
\* Properties of the application (checked under SpecApp)
\* ========================================================================
\* the step is a call of _register
Registered == nreg' = nreg + 1

\* C27: registering a second "run at startup" command, or a second "run at
\* exit" command, fails with an error and leaves the slot bound to the first
\* one; over any sequence of registrations a slot, once bound, stays bound to
\* the same command.
C27_SingleStartAndExit ==
    /\ [][(Registered /\ lastReg'.atstart /\ START_COMMAND # NoCommand) =>
            /\ lastReg'.err = "RuntimeError"
            /\ UNCHANGED <<COMMAND_REGISTRY, START_COMMAND, EXIT_COMMAND>>]_vars
    /\ [][(Registered /\ ~lastReg'.atstart /\ lastReg'.atexit
             /\ EXIT_COMMAND # NoCommand) =>
            /\ lastReg'.err = "RuntimeError"
            /\ UNCHANGED <<COMMAND_REGISTRY, START_COMMAND, EXIT_COMMAND>>]_vars
    /\ [][/\ START_COMMAND # NoCommand => START_COMMAND' = START_COMMAND
          /\ EXIT_COMMAND # NoCommand => EXIT_COMMAND' = EXIT_COMMAND]_vars
    /\ [][(Registered /\ lastReg'.atstart /\ START_COMMAND = NoCommand) =>
            /\ lastReg'.err = "-"
            /\ START_COMMAND'.func = lastReg'.func]_vars

\* a second start command, for another function, was refused
C27_Witness ==
    /\ nreg = 2
    /\ lastReg.atstart /\ lastReg.err = "RuntimeError"
    /\ START_COMMAND # NoCommand /\ START_COMMAND.func # lastReg.func

\* ------------------------------------------------------------------ C28
\* the last call of _register registered an ordinary command
OrdinaryReg ==
    nreg > 0 /\ apc = "import" /\ ~lastReg.atstart /\ ~lastReg.atexit

\* primary name and aliases of the last registration
PrimaryName == IF lastReg.name # NoName THEN lastReg.name ELSE FuncName(lastReg.func)
AliasNames == {lastReg.aliases[i] : i \in 1..Len(lastReg.aliases)}

\* C28: after a command is registered with primary name n and aliases A,
\* exact lookup of n and of every name in A yields an entry bound to the same
\* handler (and so to the same parameter list); the entry for n is the only
\* one of them not marked as an alias.
C28_NameAndAliasesRegistered ==
    OrdinaryReg =>
      \A x \in {PrimaryName} \cup AliasNames :
        /\ x \in DOMAIN COMMAND_REGISTRY
        /\ get_command_name(x, options, TRUE) = x
        /\ COMMAND_REGISTRY[x].func = lastReg.func
        /\ COMMAND_REGISTRY[x].name = x
        /\ COMMAND_REGISTRY[x].is_alias <=> x # PrimaryName

\* ------------------------------------------------------------------ C29
\* the names of commands the completer has just offered
Offered == {shown.matches[i] : i \in 1..Len(shown.matches)}

\* C29: a command that is hidden, by a constant or by its callable returning
\* true at that moment, is never among the completer's suggestions, whatever
\* the text; typed by its name it is still resolved and executed.
C29_HiddenNeverSuggested ==
    /\ shown.called => Offered \cap shown.hiddenNow = {}
    /\ (apc = "loop" /\ typed.text \in DOMAIN COMMAND_REGISTRY) =>
         /\ typed.name = typed.text
         /\ typed.func = COMMAND_REGISTRY[typed.text].func

\* ------------------------------------------------------------------ C30
\* the main loop has read a line or a completion request
InputRead == shown.called \/ typed # NoTyped

\* C30: a registered start command is run before the loop reads or executes
\* any input, and a fault it raises is fatal: it leaves relax() and the loop
\* never begins.
C30_StartCommandRunsFirst ==
    /\ (START_COMMAND # NoCommand /\ apc = "loop") => started = "returned"
    /\ started = "raised" => apc = "fatal"
    /\ apc = "fatal" => ~InputRead /\ started = "raised"
    /\ InputRead => apc = "loop"

\* ========================================================================
\* Properties of the completer (checked under SpecApp)
\* ========================================================================
\* positions of the text at which an occurrence of a control operator ends
OperatorEnds(text) ==
    {i \in 1..Len(text) :
       \E op \in {SEMI, AND, OR} :
         i >= Len(op) /\ SubSeq(text, i - Len(op) + 1, i) = op}

LastOperatorEnd(text) ==
    CHOOSE i \in OperatorEnds(text) : \A j \in OperatorEnds(text) : j <= i

\* the text up to and including its last operator, and the segment after it
Preceding(text) == SubSeq(text, 1, LastOperatorEnd(text))
LastSegment(text) == SubSeq(text, LastOperatorEnd(text) + 1, Len(text))

\* TAB was pressed on a text that holds a control operator
CompletedCompound == shown.called /\ OperatorEnds(shown.text) # {}

\* the matches are those of the last segment alone
SegmentOnly ==
    /\ shown.matches = completer(LastSegment(shown.text)).matches
    /\ shown.err = completer(LastSegment(shown.text)).err

\* C31 as stated: on a text with control operators the completer resolves
\* and suggests from the segment after the last operator only, and every
\* suggestion it returns begins, character for character, with the text up
\* to and including that operator.
C31_PrefixVerbatim ==
    CompletedCompound =>
      /\ SegmentOnly
      /\ \A i \in 1..Len(shown.responses) :
           StartsWith(shown.responses[i], Preceding(shown.text))

\* C31: on a text with control operators the completer resolves and
\* suggests from the segment after the last operator only, and every
\* suggestion it returns begins with the text up to and including that
\* operator, less the blanks the text begins with.
C31_PrefixReattached ==
    CompletedCompound =>
      /\ SegmentOnly
      /\ \A i \in 1..Len(shown.responses) :
           StartsWith(shown.responses[i], LStrip(Preceding(shown.text)))

C31_Witness ==
    /\ CompletedCompound
    /\ Len(shown.responses) > 0
    /\ Head(shown.text) = " "

\* ========================================================================
\* Further properties of the name resolver (checked under SpecResolve)
\* ========================================================================
Pieces == Split(rtext, <<" ">>)

\* the registered names that begin with the first i words of the text
Candidates(i) == {n \in Names : StartsWith(n, Join(Pieces, i))}

\* the words of n equal the words of the text at every position both have
WordsAgree(n) ==
    LET words == Split(n, <<" ">>)
    IN  \A p \in 1..Len(words) : p <= Len(Pieces) => words[p] = Pieces[p]

Survivors(i) == {n \in Candidates(i) : WordsAgree(n)}

\* the prefix lengths at which some registered name is a candidate
Hits == {i \in 1..Len(Pieces) : Candidates(i) # {}}
FirstHit == CHOOSE i \in Hits : \A j \in Hits : j <= i

\* the call went past the shortcut for an exact match
Searched == Resolved /\ ~(rexact /\ rtext \in Names)

C34_ResultIsRegisteredName ==
    (Resolved /\ rresult # NoName) => rresult \in Names

\* C35: a name returned by get_command_name is the beginning of the text,
\* followed by the end of the text or by a blank: it has no more words than
\* the text and no word the text does not have.
C35_ResultBeginsText ==
    (Resolved /\ rresult # NoName) =>
      /\ StartsWith(rtext, rresult)
      /\ Len(rtext) = Len(rresult) \/ rtext[Len(rresult) + 1] = " "

\* ========================================================================
\* Further properties of the job supervisor (checked under SpecJobs)
\* ========================================================================
\* the step is taken by the worker of job k: run() and the body it drives
WorkerAction(k) ==
    \/ RunCreateTask(k)
    \/ TaskStart(k)
    \/ BodySuspend(k)
    \/ BodyReturn(k)
    \/ BodyRaise(k)
    \/ BodyResume(k)

\* the step is taken on the main line: by the prompt's commands, by
\* foreground(), or by a signal handler (Python runs them on the main thread)
MainLineAction ==
    \/ Spawn
    \/ \E k \in Threads : Stop(k)
    \/ SigInt
    \/ FgFinish
    \/ ExitCommand

\* the fields of an AsyncCommand object that the program reads
Fields(t) ==
    [job_pid |-> t.job_pid, result |-> t.result, exception |-> t.exception,
     wait |-> t.wait, killed |-> t.killed]

\* C33: the worker of a job that reaches a terminal state (normal return or
\* captured fault) updates only that job's result or failure and never
\* inserts into or removes from the job table. The key set of the table
\* changes only by spawn (one id inserted) and by foreground or stop (ids
\* removed), which are steps of the main line, never of a worker.
C33_WorkersLeaveTableAlone ==
    /\ [][\A k \in Threads :
            WorkerAction(k) =>
              /\ JOBS' = JOBS /\ NEXT_JOB_PID' = NEXT_JOB_PID
              /\ \A j \in Threads \ {k} : threads'[j] = threads[j]
              /\ threads'[k].tpc = "dead" =>
                   \/ Fields(threads'[k]) = Fields(threads[k])
                   \/ Fields(threads'[k]) =
                        [Fields(threads[k]) EXCEPT !.result = threads'[k].bodyRet]
                   \/ Fields(threads'[k]) =
                        [Fields(threads[k]) EXCEPT !.exception = threads'[k].bodyExc]]_vars
    /\ [][DOMAIN JOBS' # DOMAIN JOBS =>
            /\ MainLineAction
            /\ \A k \in Threads : ~WorkerAction(k)
            /\ \/ /\ Spawn
                  /\ DOMAIN JOBS' = DOMAIN JOBS \cup {NEXT_JOB_PID}
               \/ /\ DOMAIN JOBS' \subseteq DOMAIN JOBS
                  /\ \A p \in DOMAIN JOBS \ DOMAIN JOBS' :
                       \/ threads'[JOBS[p]].killed
                       \/ FgFinish /\ fg.k = JOBS[p]]_vars

\* job 1 ended with its result while it and job 2 stayed in the table
C33_Witness ==
    /\ Len(threads) = 2
    /\ threads[1].tpc = "dead" /\ threads[1].result = "v1"
    /\ DOMAIN JOBS = {1, 2}

\* the step is the end of a foreground() call that hands the job's result
\* or fault to its caller
Delivery ==
    /\ mainpc = "fg_finish" /\ mainpc' = "fg_exit"
    /\ fg'.kind \in {"result", "fault"}

\* the ids given out so far
IdsUsed == 1..(NEXT_JOB_PID - 1)

\* C36: the result or fault of a job is delivered to at most one foreground
\* call: the delivering call takes the job's id out of the table, no later
\* step enters the id again, and fg for an id that is not in the table fails
\* with a command error without entering foreground().
C36_DeliveredOnce ==
    /\ [](FgEnded /\ fg.kind \in {"result", "fault"}
            => FgJob.job_pid \notin DOMAIN JOBS)
    /\ [][Delivery => /\ InTable(fg.k)
                      /\ threads[fg.k].job_pid \notin DOMAIN JOBS']_vars
    /\ [][\A p \in IdsUsed : p \notin DOMAIN JOBS => p \notin DOMAIN JOBS']_vars
    /\ [](mainpc = "idle" =>
            \A p \in IdsUsed \ DOMAIN JOBS :
              /\ FgTarget(p) = 0
              /\ ENABLED fg_command(p))
    /\ [][FgEntered => InTable(fg'.k)]_vars

\* the fault of job 2 has been delivered; job 1 is still in the table
C36_Witness ==
    /\ FgEnded /\ fg.kind = "fault" /\ fg.k = 2
    /\ DOMAIN JOBS = {1}

\* C37: an interrupt delivered while no foreground wait is active (at the
\* prompt, whatever way the last foreground call ended) never stops a job,
\* never marks a job Cancelled and never changes the job table.
C37_InterruptAtPromptHarmless ==
    [][(mainpc = "idle" /\ SigInt) =>
         /\ JOBS' = JOBS
         /\ \A k \in Threads :
              /\ threads'[k].killed = threads[k].killed
              /\ threads'[k].cancelReq = threads[k].cancelReq]_vars

\* C38: a stop request, explicit or by an interrupt during the foreground
\* wait, that arrives at any moment after spawn, also before the worker has
\* begun the body, is carried out without error: the job is marked Cancelled
\* and removed from the table.
C38_StopAtAnyMoment ==
    /\ [][\A k \in Threads :
            Stop(k) => /\ mainpc' = "idle"
                       /\ threads'[k].killed
                       /\ threads[k].job_pid \notin DOMAIN JOBS']_vars
    /\ [][(mainpc = "fg_loop" /\ SigInt) =>
            /\ mainpc' = "fg_loop" /\ fg'.kind = "-"
            /\ threads'[fg.k].killed
            /\ threads[fg.k].job_pid \notin DOMAIN JOBS']_vars

\* ========================================================================
\* Exit requests and job outcomes in compound lines (checked under Spec)
\* ========================================================================
\* the step is a run of one simple command that ended with SystemExit
ExitRequestStep ==
    /\ Len(trace') = Len(trace) + 1
    /\ trace'[Len(trace')].kind = "SystemExit"

\* C39: the exit command's SystemExit (EXIT_COMMAND_CODE) raised by a
\* segment leaves execute() at once, through every enclosing loop, and no
\* later segment of the line is run whatever the operators are; any other
\* SystemExit raised by a command (argument parse failure, -help, exit with
\* another code) becomes the segment's exit code and execute() goes on with
\* the loop it is in.
C39_ExitRequestPropagates ==
    /\ [][ExitRequestStep =>
            IF trace'[Len(trace')].val = EXIT_COMMAND_CODE
              THEN shpc' = "raised" /\ stack' = <<>>
              ELSE /\ shpc' = "ret" /\ stack' = stack
                   /\ retval' = trace'[Len(trace')].val
                   /\ trace'[Len(trace')].code = trace'[Len(trace')].val]_vars
    /\ [][shpc # "raised"]_vars
    /\ [](shpc = "raised" =>
            /\ trace # <<>>
            /\ trace[Len(trace)].kind = "SystemExit"
            /\ trace[Len(trace)].val = EXIT_COMMAND_CODE)
    /\ [](\A i \in 1..Len(trace) :
            (trace[i].kind = "SystemExit" /\ trace[i].val = EXIT_COMMAND_CODE)
              => i = Len(trace) /\ shpc = "raised")

\* "a||b" left by the exit request of a: b was not run although a failed
C39_Witness ==
    /\ shpc = "raised"
    /\ line = <<"a", "|", "|", "b">>
    /\ Len(trace) = 1 /\ trace[1].name = <<"a">>

\* the i-th simple command handed its body to a job that is detached from
\* the main line and still executing when the command has returned
Detached(i) ==
    /\ trace[i].job # 0
    /\ trace[i].job \in DOMAIN JOBS
    /\ BodyLive(i)

a_semi_b == <<"a", ";", "b">>
a_or_b == <<"a", "|", "|", "b">>
a_and_b == <<"a", "&", "&", "b">>

====
